---- MODULE Spec2Model ----
(***************************************************************************)
(* Model of the fil-cosigner server: the cosignMessage request handler     *)
(* (server/api/controllers/filecoin/controller.ts), the key and            *)
(* transaction store (db: createServerKey, getKeysByAddress,               *)
(* addTransaction, watchTransaction) and the signing helper cosign.        *)
(*                                                                         *)
(* BLS values are modelled symbolically.  A public key is the tagged       *)
(* private scalar, a group element built by point addition is the bag of   *)
(* its summands: a signature is a bag of <<public key, signed bytes>>, an  *)
(* aggregate public key a bag of public keys.  Bag union is point          *)
(* addition, so adding the same summand twice is visible.                  *)
(*                                                                         *)
(* An async handler is cut at its awaits: one action is the completion of  *)
(* the awaited operation followed by the synchronous code up to the next   *)
(* await.                                                                  *)
(***************************************************************************)
EXTENDS Bags, FiniteSets, Integers, Sequences, TLC

\* ---- bounds ----
MaxReq == 2            \* cosignMessage requests per behaviour
MaxHeight == 1         \* block heights the node may report: 1..MaxHeight
NumServerKeys == 1     \* distinct values crypto.randomBytes may return

UserPrivKeys == {1, 2}
ServerKeys == {10 + i : i \in 1..NumServerKeys}
Heights == 1..MaxHeight

\* ---- BLS engine and message helpers ----

\* filecoin.privToPub
privToPub(k) == <<"pub", k>>

UserPubKeys == {privToPub(u) : u \in UserPrivKeys}

\* filecoin.pubToAggAddress: BLS address of the sum of the two public keys
pubToAggAddress(userPubKey, serverPubKey) ==
  <<"f3", SetToBag({userPubKey}) (+) SetToBag({serverPubKey})>>

Addresses ==
  {pubToAggAddress(p, privToPub(s)) : p \in UserPubKeys, s \in ServerKeys}

\* the field order of the serialized message
serializeLotusMessage(m) ==
  <<"cbor", m.Version, m.To, m.From, m.Nonce, m.Value, m.GasLimit,
    m.GasFeeCap, m.GasPremium, m.Method, m.Params>>

\* signing bytes are the content identifier of the serialized message
signingBytesLotusMessage(m) == <<"cid", serializeLotusMessage(m)>>

\* BLS signature of privateKey over signingBytes
sign(signingBytes, privateKey) ==
  SetToBag({<<privToPub(privateKey), signingBytes>>})

blsSignatureType == "bls"

\* the tag of the other, legacy scheme
secpSignatureType == "secp256k1"

\* cosign / filecoin.signLotusMessage: sign the signing bytes derived from
\* the message itself
signLotusMessage(lotusMessage, privateKey) ==
  [Message |-> lotusMessage,
   Signature |-> [Type |-> blsSignatureType,
                  Data |-> sign(signingBytesLotusMessage(lotusMessage),
                                privateKey)]]

\* aggregation that counts its first argument twice
aggregateSigsOrdered(sig1, sig2) == sig1 (+) sig1 (+) sig2

\* filecoin.aggregateSigs: point addition of the two signatures
aggregateSigs(sig1, sig2) == sig1 (+) sig2

\* filecoin.isMessage: the body is a signed FIL message
isMessage(message) ==
  message.wellFormed /\ message.Signature.Type = blsSignatureType

\* ---- request inputs ----
BaseMessage(from, to) ==
  [Version |-> 0, To |-> to, From |-> from, Nonce |-> 0, Value |-> "1",
   GasLimit |-> 0, GasFeeCap |-> "0", GasPremium |-> "0", Method |-> 0,
   Params |-> ""]

\* messages a client sends
Messages == {BaseMessage(a, "t01") : a \in Addresses}

\* the same message with another recipient: what a client signed when its
\* signing bytes do not belong to the message it sends
Tamper(m) == [m EXCEPT !.To = "t02"]

\* the user's signature over the message, as a client produces it
UserSigned(m, u, tampered) ==
  [wellFormed |-> TRUE,
   Message |-> m,
   Signature |->
     [Type |-> blsSignatureType,
      Data |-> sign(signingBytesLotusMessage(IF tampered THEN Tamper(m)
                                                         ELSE m), u)]]

\* a well-formed signed message that carries the legacy signature tag
LegacySigned(m, u) ==
  [UserSigned(m, u, FALSE) EXCEPT !.Signature.Type = secpSignatureType]

\* a body that is not a signed FIL message
BadBody ==
  [wellFormed |-> FALSE,
   Message |-> BaseMessage(CHOOSE a \in Addresses : TRUE, "t01"),
   Signature |-> [Type |-> blsSignatureType, Data |-> EmptyBag]]

\* ---- state ----
VARIABLES
  keypairs,      \* table keypairs: a bag of rows [userpubkey, privkey, address]
  transactions,  \* table transactions: rows in insertion order
  chain,         \* the node's accepted messages; a cid is the position
  reqs,          \* the cosignMessage requests, in order of arrival
  regs,          \* the latest createKeyPair response: [publicKey, code]
  pure           \* a call of a pure function: its input, then its result

vars == <<keypairs, transactions, chain, reqs, regs, pure>>

Sent == "Sent"
Partial == "Partial"
Verified == "Verified"
NoHeight == 0          \* blockheight null
NullKey == 0           \* serverPrivKey null

\* no createKeyPair response yet
NoReg == [publicKey |-> <<"pub", 0>>, code |-> 0]

\* no call of a pure function
NoCall == [op |-> "none"]

Init ==
  /\ keypairs = EmptyBag
  /\ transactions = <<>>
  /\ chain = <<>>
  /\ reqs = <<>>
  /\ regs = NoReg
  /\ pure = NoCall

\* ---- db ----

\* createServerKey: INSERT INTO keypairs; the insert fails with 23505 when
\* the user key is present
\* keypairs without its unique constraint: no insert is ever refused
NeverRegistered(userPubKey) == FALSE

UserAlreadyRegistered(userPubKey) ==
  \E row \in BagToSet(keypairs) : row.userpubkey = userPubKey

createServerKey(userPubKey, privkey) ==
  keypairs (+)
    SetToBag({[userpubkey |-> userPubKey, privkey |-> privkey,
               address |-> pubToAggAddress(userPubKey, privToPub(privkey))]})

\* getKeysByAddress: <<>> stands for null
getKeysByAddress(address) ==
  LET rows == {row \in BagToSet(keypairs) : row.address = address}
  IN IF rows = {} THEN <<>>
     ELSE LET row0 == CHOOSE row \in rows : TRUE
          IN <<[userPubKey |-> row0.userpubkey,
                serverPrivKey |-> row0.privkey]>>

\* getMatchingKey: <<>> stands for null
getMatchingKey(userPubKey) ==
  LET rows == {row \in BagToSet(keypairs) : row.userpubkey = userPubKey}
  IN IF rows = {} THEN <<>>
     ELSE <<(CHOOSE row \in rows : TRUE).privkey>>

\* the address is recomputed from the user's key alone
getAggAddressUserOnly(userPubKey) ==
  LET privkey == getMatchingKey(userPubKey)
  IN IF privkey = <<>> THEN <<>>
     ELSE <<pubToAggAddress(userPubKey, userPubKey)>>

\* getAggAddress: <<>> stands for null
getAggAddress(userPubKey) ==
  LET privkey == getMatchingKey(userPubKey)
  IN IF privkey = <<>> THEN <<>>
     ELSE <<pubToAggAddress(userPubKey, privToPub(privkey[1]))>>

\* addTransaction: the INSERT with status Sent; the amount and time columns
\* are left out, no operation reads them
addTransaction(userKey, messageId) ==
  Append(transactions,
         [userpubkey |-> userKey, messageid |-> messageId,
          completed |-> Sent, blockheight |-> NoHeight])

\* the UPDATE of watchTransaction: its WHERE clause names the user key only
UpdateTransactions(userKey, messageId, status, height) ==
  [i \in DOMAIN transactions |->
     IF transactions[i].userpubkey = userKey
     THEN [transactions[i] EXCEPT !.completed = status,
                                  !.blockheight = height]
     ELSE transactions[i]]

\* ---- lotus ----
IndexOf(seq, x) == CHOOSE i \in DOMAIN seq : seq[i] = x
InSeq(seq, x) == \E i \in DOMAIN seq : seq[i] = x

\* lotus.sendMessage, accepted: the node keeps one copy per content
\* identifier
Accept(msg) == IF InSeq(chain, msg) THEN chain ELSE Append(chain, msg)

\* ---- createKeyPair ----
\* the catch does not tell the conflict from other failures
CreateKeyPairAnyError(publicKey, paramsOk, privkey, lookupsOk) ==
  /\ IF ~paramsOk
     THEN /\ regs' = [publicKey |-> publicKey, code |-> 400]
          /\ UNCHANGED keypairs
     ELSE IF UserAlreadyRegistered(publicKey)
     THEN /\ regs' = [publicKey |-> publicKey, code |-> 500]
          /\ UNCHANGED keypairs
     ELSE /\ keypairs' = createServerKey(publicKey, privkey)
          /\ regs' = [publicKey |-> publicKey,
                      code |-> IF lookupsOk THEN 200 ELSE 500]
  /\ UNCHANGED <<transactions, chain, reqs, pure>>

\* controller.ts 8-44: 400 on bad parameters; the INSERT of createServerKey;
\* 409 when it is refused; else the balance lookups, 500 when one fails
CreateKeyPair(publicKey, paramsOk, privkey, lookupsOk) ==
  /\ IF ~paramsOk
     THEN /\ regs' = [publicKey |-> publicKey, code |-> 400]
          /\ UNCHANGED keypairs
     ELSE IF UserAlreadyRegistered(publicKey)
     THEN /\ regs' = [publicKey |-> publicKey, code |-> 409]
          /\ UNCHANGED keypairs
     ELSE /\ keypairs' = createServerKey(publicKey, privkey)
          /\ regs' = [publicKey |-> publicKey,
                      code |-> IF lookupsOk THEN 200 ELSE 500]
  /\ UNCHANGED <<transactions, chain, reqs, pure>>

\* ---- cosignMessage ----
NoRes == [code |-> 0, messageId |-> 0, status |-> "", blockheight |-> 0]
ErrRes(code) == [NoRes EXCEPT !.code = code]

\* the body of the 200 response
SentRes(cid) ==
  [code |-> 200, messageId |-> cid, status |-> Sent,
   blockheight |-> NoHeight]

NewReq(message) ==
  [pc |-> "getKeys", message |-> message, resubmitted |-> InSeq(chain, message),
   keys |-> <<>>, authErr |-> FALSE, serverSigned |-> <<>>, aggMsg |-> <<>>,
   cid |-> 0, added |-> 0, res |-> NoRes, watch |-> "none",
   height |-> NoHeight]

Bodies ==
  {BadBody}
    \cup {LegacySigned(m, 1) : m \in Messages}
    \cup {UserSigned(m, u, t) : m \in Messages, u \in UserPrivKeys,
                                t \in BOOLEAN}
    \cup {chain[i] : i \in DOMAIN chain}

\* the body check is missing: every body goes on to the key lookup
ReceiveUnchecked(message) ==
  /\ Len(reqs) < MaxReq
  /\ reqs' = Append(reqs, NewReq(message))
  /\ UNCHANGED <<keypairs, transactions, chain, regs, pure>>

\* controller.ts 160-168: the body check, then the key lookup is awaited
Receive(message) ==
  /\ Len(reqs) < MaxReq
  /\ reqs' = Append(reqs,
       IF ~isMessage(message)
       THEN [NewReq(message) EXCEPT !.pc = "done", !.res = ErrRes(400)]
       ELSE NewReq(message))
  /\ UNCHANGED <<keypairs, transactions, chain, regs, pure>>

\* controller.ts 166-178: the lookup returns; destructuring null throws
GetKeys(r) ==
  /\ reqs[r].pc = "getKeys"
  /\ LET keys == getKeysByAddress(reqs[r].message.Message.From)
     IN reqs' = [reqs EXCEPT ![r] =
          IF keys = <<>>
          THEN [@ EXCEPT !.pc = "thrown"]
          ELSE IF keys[1].serverPrivKey = NullKey
          THEN [@ EXCEPT !.pc = "done", !.keys = keys, !.res = ErrRes(404)]
          ELSE [@ EXCEPT !.pc = "auth", !.keys = keys]]
  /\ UNCHANGED <<keypairs, transactions, chain, regs, pure>>

\* validateUCAN returns; the 401 branch lacks its return
ValidateUCANNoReturn(r, maybeErr) ==
  /\ reqs[r].pc = "auth"
  /\ reqs' = [reqs EXCEPT ![r] =
       IF maybeErr
       THEN [@ EXCEPT !.pc = "sign", !.authErr = TRUE, !.res = ErrRes(401)]
       ELSE [@ EXCEPT !.pc = "sign"]]
  /\ UNCHANGED <<keypairs, transactions, chain, regs, pure>>

\* controller.ts 174-187: validateUCAN returns
ValidateUCAN(r, maybeErr) ==
  /\ reqs[r].pc = "auth"
  /\ reqs' = [reqs EXCEPT ![r] =
       IF maybeErr
       THEN [@ EXCEPT !.pc = "done", !.authErr = TRUE, !.res = ErrRes(401)]
       ELSE [@ EXCEPT !.pc = "sign"]]
  /\ UNCHANGED <<keypairs, transactions, chain, regs, pure>>

\* the bytes a signature of a single party was made over
SignedBytes(data) == (CHOOSE e \in BagToSet(data) : TRUE)[2]

\* the server signs the bytes the caller's signature was made over
SignAndAggregateCallerBytes(r) ==
  /\ reqs[r].pc = "sign"
  /\ LET message == reqs[r].message
         serverSigned ==
           [Message |-> message.Message,
            Signature |->
              [Type |-> blsSignatureType,
               Data |-> sign(SignedBytes(message.Signature.Data),
                             reqs[r].keys[1].serverPrivKey)]]
         aggSig == aggregateSigs(serverSigned.Signature.Data,
                                 message.Signature.Data)
         aggMsg == [message EXCEPT !.Signature.Data = aggSig]
     IN reqs' = [reqs EXCEPT ![r] =
          [@ EXCEPT !.pc = "send", !.serverSigned = <<serverSigned>>,
                    !.aggMsg = <<aggMsg>>]]
  /\ UNCHANGED <<keypairs, transactions, chain, regs, pure>>

\* the aggregate is attached to a rebuilt message with the next nonce
SignAndAggregateNextNonce(r) ==
  /\ reqs[r].pc = "sign"
  /\ LET message == reqs[r].message
         serverSigned == signLotusMessage(message.Message,
                                          reqs[r].keys[1].serverPrivKey)
         aggSig == aggregateSigs(serverSigned.Signature.Data,
                                 message.Signature.Data)
         aggMsg == [message EXCEPT !.Signature.Data = aggSig,
                                   !.Message.Nonce = @ + 1]
     IN reqs' = [reqs EXCEPT ![r] =
          [@ EXCEPT !.pc = "send", !.serverSigned = <<serverSigned>>,
                    !.aggMsg = <<aggMsg>>]]
  /\ UNCHANGED <<keypairs, transactions, chain, regs, pure>>

\* controller.ts 184-202: the server's signature returns; aggregate and submit
SignAndAggregate(r) ==
  /\ reqs[r].pc = "sign"
  /\ LET message == reqs[r].message
         serverSigned == signLotusMessage(message.Message,
                                          reqs[r].keys[1].serverPrivKey)
         aggSig == aggregateSigs(serverSigned.Signature.Data,
                                 message.Signature.Data)
         aggMsg == [message EXCEPT !.Signature.Data = aggSig]
     IN reqs' = [reqs EXCEPT ![r] =
          [@ EXCEPT !.pc = "send", !.serverSigned = <<serverSigned>>,
                    !.aggMsg = <<aggMsg>>]]
  /\ UNCHANGED <<keypairs, transactions, chain, regs, pure>>

\* the check of the content identifier is missing: a refused submission goes
\* on with the cid it has, none
SendMessageNoThrow(r, accepted) ==
  /\ reqs[r].pc = "send"
  /\ IF accepted
     THEN /\ chain' = Accept(reqs[r].aggMsg[1])
          /\ reqs' = [reqs EXCEPT ![r] =
               [@ EXCEPT !.pc = "addTx",
                         !.cid = IndexOf(chain', reqs[r].aggMsg[1])]]
     ELSE /\ reqs' = [reqs EXCEPT ![r] = [@ EXCEPT !.pc = "addTx"]]
          /\ UNCHANGED chain
  /\ UNCHANGED <<keypairs, transactions, regs, pure>>

\* controller.ts 202-208: sendMessage returns a content identifier or not
SendMessage(r, accepted) ==
  /\ reqs[r].pc = "send"
  /\ IF accepted
     THEN /\ chain' = Accept(reqs[r].aggMsg[1])
          /\ reqs' = [reqs EXCEPT ![r] =
               [@ EXCEPT !.pc = "addTx",
                         !.cid = IndexOf(chain', reqs[r].aggMsg[1])]]
     ELSE /\ reqs' = [reqs EXCEPT ![r] = [@ EXCEPT !.pc = "thrown"]]
          /\ UNCHANGED chain
  /\ UNCHANGED <<keypairs, transactions, regs, pure>>

\* controller.ts 208: the INSERT of addTransaction is executed
AddTransaction(r) ==
  /\ reqs[r].pc = "addTx"
  /\ transactions' = addTransaction(reqs[r].keys[1].userPubKey, reqs[r].cid)
  /\ reqs' = [reqs EXCEPT ![r] =
       [@ EXCEPT !.pc = "respond", !.added = @ + 1]]
  /\ UNCHANGED <<keypairs, chain, regs, pure>>

\* the watcher is awaited before the response is sent
RespondAwaited(r) ==
  /\ reqs[r].pc = "respond"
  /\ \/ /\ reqs[r].watch = "none"
        /\ reqs' = [reqs EXCEPT ![r] = [@ EXCEPT !.watch = "wait1"]]
     \/ /\ reqs[r].watch = "done"
        /\ reqs' = [reqs EXCEPT ![r] =
             [@ EXCEPT !.pc = "done", !.res = SentRes(reqs[r].cid)]]
  /\ UNCHANGED <<keypairs, transactions, chain, regs, pure>>

\* controller.ts 209-219: the watcher is started, not awaited, and the response sent
Respond(r) ==
  /\ reqs[r].pc = "respond"
  /\ reqs' = [reqs EXCEPT ![r] =
       [@ EXCEPT !.pc = "done", !.watch = "wait1",
                 !.res = SentRes(reqs[r].cid)]]
  /\ UNCHANGED <<keypairs, transactions, chain, regs, pure>>

\* ---- watchTransaction(userKey, messageId), one task per request ----

\* db 113-119: the first waitMsg returns and the rows are updated
WatchIncluded(r, height) ==
  /\ reqs[r].watch = "wait1"
  /\ transactions' = UpdateTransactions(reqs[r].keys[1].userPubKey,
                                        reqs[r].cid, Partial, height)
  /\ reqs' = [reqs EXCEPT ![r] =
       [@ EXCEPT !.watch = "wait2", !.height = height]]
  /\ UNCHANGED <<keypairs, chain, regs, pure>>

\* db 120-125: the second waitMsg returns and the rows are updated
WatchVerified(r) ==
  /\ reqs[r].watch = "wait2"
  /\ transactions' = UpdateTransactions(reqs[r].keys[1].userPubKey,
                                        reqs[r].cid, Verified,
                                        reqs[r].height)
  /\ reqs' = [reqs EXCEPT ![r] = [@ EXCEPT !.watch = "done"]]
  /\ UNCHANGED <<keypairs, chain, regs, pure>>

\* waitMsg throws (error or timeout): the task's promise is rejected and
\* nobody handles it
WatchFailed(r) ==
  /\ reqs[r].watch \in {"wait1", "wait2"}
  /\ reqs' = [reqs EXCEPT ![r] = [@ EXCEPT !.watch = "rejected"]]
  /\ UNCHANGED <<keypairs, transactions, chain, regs, pure>>

Next ==
  \/ \E p \in UserPubKeys, ok \in BOOLEAN, k \in ServerKeys,
        lookupsOk \in BOOLEAN :
       CreateKeyPair(p, ok, k, lookupsOk)
  \/ \E message \in Bodies : Receive(message)
  \/ \E r \in DOMAIN reqs : GetKeys(r)
  \/ \E r \in DOMAIN reqs, maybeErr \in BOOLEAN : ValidateUCAN(r, maybeErr)
  \/ \E r \in DOMAIN reqs : SignAndAggregate(r)
  \/ \E r \in DOMAIN reqs, accepted \in BOOLEAN : SendMessage(r, accepted)
  \/ \E r \in DOMAIN reqs : AddTransaction(r)
  \/ \E r \in DOMAIN reqs : Respond(r)
  \/ \E r \in DOMAIN reqs, h \in Heights : WatchIncluded(r, h)
  \/ \E r \in DOMAIN reqs : WatchVerified(r)
  \/ \E r \in DOMAIN reqs : WatchFailed(r)

Spec == Init /\ [][Next]_vars

TypeOK ==
  /\ \A r \in DOMAIN reqs : reqs[r].pc \in
       {"getKeys", "auth", "sign", "send", "addTx", "respond", "done",
        "thrown"}
  /\ regs.code \in {0, 200, 400, 409, 500}
  /\ Len(reqs) <= MaxReq

\* ---- vocabulary of the properties ----
Ended(q) == q.pc \in {"done", "thrown"}

\* the lookup of the request found no row for Message.From
KeyMissing(q) ==
  isMessage(q.message) /\ q.pc # "getKeys" /\ q.keys = <<>>

\* the Validated stage failed
ValidationFailed(q) ==
  ~isMessage(q.message) \/ KeyMissing(q) \/ q.authErr

\* no cryptographic work, submission or record in the request
Untouched(q) ==
  /\ q.serverSigned = <<>>
  /\ q.aggMsg = <<>>
  /\ q.cid = 0
  /\ q.added = 0
  /\ q.watch = "none"

\* C1: a request whose Validated stage failed ends with a 4xx response and
\* without signing, aggregating, submitting or recording anything.
C1_ValidationFailureRejected ==
  \A r \in DOMAIN reqs :
    (Ended(reqs[r]) /\ ValidationFailed(reqs[r])) =>
      /\ reqs[r].pc = "done"
      /\ reqs[r].res.code \in {400, 401, 404}
      /\ Untouched(reqs[r])

\* C2: when no key record exists for Message.From the request terminates
\* normally with a 404 response.
C2_MissingKeyIs404 ==
  \A r \in DOMAIN reqs :
    KeyMissing(reqs[r]) =>
      reqs[r].pc = "done" /\ reqs[r].res.code = 404

\* the stages a request has passed are recorded in its fields
StageInv(q) ==
  /\ q.serverSigned # <<>> =>
       /\ isMessage(q.message) /\ q.keys # <<>> /\ ~q.authErr
       /\ q.pc \notin {"getKeys", "auth", "sign"}
  /\ q.aggMsg # <<>> => q.serverSigned # <<>>
  /\ q.cid # 0 =>
       /\ q.aggMsg # <<>>
       /\ q.cid \in DOMAIN chain /\ chain[q.cid] = q.aggMsg[1]
  /\ q.added \in {0, 1}
  /\ q.added = 1 => q.cid # 0
  /\ q.watch # "none" => q.added = 1
  /\ q.res.code = 200 <=> q.watch # "none"

PcEdges ==
  {<<"getKeys", "auth">>, <<"getKeys", "done">>, <<"getKeys", "thrown">>,
   <<"auth", "sign">>, <<"auth", "done">>, <<"sign", "send">>,
   <<"send", "addTx">>, <<"send", "thrown">>, <<"addTx", "respond">>,
   <<"respond", "done">>}

WatchEdges ==
  {<<"none", "wait1">>, <<"wait1", "wait2">>, <<"wait2", "done">>,
   <<"wait1", "rejected">>, <<"wait2", "rejected">>}

\* one step of a request: forward along the stages, each product written once
StageStep(q, n) ==
  /\ q.pc # n.pc => <<q.pc, n.pc>> \in PcEdges
  /\ q.watch # n.watch => <<q.watch, n.watch>> \in WatchEdges
  /\ q.serverSigned # <<>> => n.serverSigned = q.serverSigned
  /\ q.aggMsg # <<>> => n.aggMsg = q.aggMsg
  /\ q.cid # 0 => n.cid = q.cid
  /\ n.added >= q.added
  /\ n.added # q.added => Len(transactions') = Len(transactions) + 1

\* C3: a request passes the stages in order, none skipped or repeated: the
\* server signs only after validation, lookup and authorization succeeded,
\* aggregates only after signing, submits only after aggregating, and
\* records and watches only after the node returned a content identifier.
C3_StagesInOrder ==
  /\ [](\A r \in DOMAIN reqs : StageInv(reqs[r]))
  /\ [][\A r \in DOMAIN reqs : StageStep(reqs[r], reqs'[r])]_vars

C3_Witness ==
  \E r \in DOMAIN reqs : reqs[r].watch = "done" /\ reqs[r].res.code = 200

\* the user whose key made the individual signature of the request
IsSigner(q, u) ==
  q.message.Signature.Data =
    sign(signingBytesLotusMessage(q.message.Message), u)

\* the aggregate address stored for the user, if any
KnownAggregates(u) ==
  {row.address :
     row \in {x \in BagToSet(keypairs) : x.userpubkey = privToPub(u)}}

\* C4: a request whose from differs from the known aggregate address of
\* its signer is never countersigned, aggregated or submitted, even when
\* the signer's individual signature is valid.
C4_ForeignFromRejected ==
  \A r \in DOMAIN reqs : \A u \in UserPrivKeys :
    (/\ isMessage(reqs[r].message)
     /\ IsSigner(reqs[r], u)
     /\ reqs[r].message.Message.From \notin KnownAggregates(u)) =>
      /\ reqs[r].serverSigned = <<>>
      /\ reqs[r].aggMsg = <<>>
      /\ reqs[r].cid = 0

\* C5: the server's signature is over the signing bytes derived from the
\* request's Message, whatever bytes the caller signed, and the Message
\* signed is the Message submitted.
C5_ServerSignsOwnBytes ==
  \A r \in DOMAIN reqs :
    reqs[r].serverSigned # <<>> =>
      /\ reqs[r].serverSigned[1].Message = reqs[r].message.Message
      /\ reqs[r].serverSigned[1].Signature.Data =
           sign(signingBytesLotusMessage(reqs[r].message.Message),
                reqs[r].keys[1].serverPrivKey)
      /\ reqs[r].aggMsg # <<>> =>
           reqs[r].aggMsg[1].Message = reqs[r].serverSigned[1].Message
      /\ reqs[r].cid # 0 =>
           chain[reqs[r].cid].Message = reqs[r].serverSigned[1].Message

\* a successful request whose caller signed other bytes than the message's
C5_Witness ==
  \E r \in DOMAIN reqs : \E u \in UserPrivKeys :
    /\ reqs[r].res.code = 200
    /\ reqs[r].message.Signature.Data =
         sign(signingBytesLotusMessage(Tamper(reqs[r].message.Message)), u)

\* C6: a resubmitted, already aggregated SignedMessage is not aggregated
\* again: the signature submitted for it equals the one it arrived with.
C6_NoReaggregation ==
  \A r \in DOMAIN reqs :
    (reqs[r].resubmitted /\ reqs[r].aggMsg # <<>>) =>
      reqs[r].aggMsg[1].Signature.Data = reqs[r].message.Signature.Data

\* the rows recorded for the request's content identifier
RowsOf(q) ==
  {i \in DOMAIN transactions :
     /\ transactions[i].messageid = q.cid
     /\ transactions[i].userpubkey = q.keys[1].userPubKey}

\* C7: once the watcher of a submitted transaction has ended, the recorded
\* status is terminal: Verified, or Failed when the node reported an error.
C7_TerminalStatusRecorded ==
  \A r \in DOMAIN reqs :
    /\ reqs[r].watch = "done" =>
         \A i \in RowsOf(reqs[r]) : transactions[i].completed = Verified
    /\ reqs[r].watch = "rejected" =>
         \A i \in RowsOf(reqs[r]) : transactions[i].completed = "Failed"

\* C8: a step of watchTransaction(userKey, messageId) changes only rows
\* whose message id is messageId.
C8_WatcherTouchesOwnRow ==
  [][\A i \in DOMAIN transactions :
       transactions'[i] # transactions[i] =>
         \E r \in DOMAIN reqs :
           /\ reqs'[r].watch # reqs[r].watch
           /\ transactions[i].messageid = reqs[r].cid]_vars

\* C9: the 200 response is sent in the step that starts the watcher, with
\* status Sent and a null block height, before any confirmation result.
C9_FireAndForget ==
  /\ [](\A r \in DOMAIN reqs :
          reqs[r].res.code = 200 =>
            /\ reqs[r].res.status = Sent
            /\ reqs[r].res.blockheight = NoHeight
            /\ reqs[r].res.messageId = reqs[r].cid)
  /\ [][\A r \in DOMAIN reqs :
          (reqs[r].res.code # 200 /\ reqs'[r].res.code = 200) =>
            /\ reqs[r].watch = "none"
            /\ reqs'[r].watch = "wait1"]_vars

\* the response was sent and the node never confirmed
C9_Witness ==
  \E r \in DOMAIN reqs :
    reqs[r].res.code = 200 /\ reqs[r].watch = "rejected"

\* the signatures that occur in the requests
KnownSigs ==
  UNION {{reqs[r].message.Signature.Data}
           \cup {m.Signature.Data : m \in {reqs[r].serverSigned[i] :
                                              i \in DOMAIN reqs[r].serverSigned}}
           \cup {m.Signature.Data : m \in {reqs[r].aggMsg[i] :
                                              i \in DOMAIN reqs[r].aggMsg}}
         : r \in DOMAIN reqs}

FieldChecks ==
  << <<"version", "number">>, <<"to", "string">>, <<"from", "string">>,
     <<"nonce", "number">>, <<"value", "string">>, <<"gasLimit", "number">>,
     <<"gasFeeCap", "string">>, <<"gasPremium", "string">>,
     <<"method", "number">>, <<"params", "string">> >>

AddressFields == {"to", "from"}

\* the address strings the address grammar accepts
ValidAddressStrings ==
  {"t03832874859695014541", "t1pyfq7dg6sq65acyomqvzvbgwni4zllglqffw5dy"}

\* a field of an untrusted object: the JavaScript type of its value and the
\* value; val is meaningless when kind is not the field's type
Field(kind, val) == [kind |-> kind, val |-> val]

\* baseLotusMessagObject of the tests
baseLotusMessagObject ==
  [version |-> Field("number", 0),
   to |-> Field("string", "t03832874859695014541"),
   from |-> Field("string", "t1pyfq7dg6sq65acyomqvzvbgwni4zllglqffw5dy"),
   nonce |-> Field("number", 10),
   value |-> Field("string", "11416382733294334924"),
   method |-> Field("number", 0),
   gasFeeCap |-> Field("string", "1"),
   gasPremium |-> Field("string", "1"),
   gasLimit |-> Field("number", 123),
   params |-> Field("string", "")]

\* the same object with a field left out
Without(obj, f) == [obj EXCEPT ![f].kind = "undefined"]

\* incompleteBaseLotusMessagObject of the tests
incompleteBaseLotusMessagObject == Without(baseLotusMessagObject, "version")

\* the values a field of an untrusted object is drawn from: present as in
\* the tests or left out
Choices(f) == {baseLotusMessagObject[f], Without(baseLotusMessagObject, f)[f]}

\* the untrusted objects: every field present or left out, version also of
\* the wrong type, to and from also the other valid address, to also an
\* invalid address string
RawObjects ==
  [version : Choices("version") \cup {Field("string", 0)},
   to : Choices("to") \cup {baseLotusMessagObject.from, Field("string", "addrA")},
   from : Choices("from") \cup {baseLotusMessagObject.to},
   nonce : Choices("nonce"),
   value : Choices("value"),
   method : Choices("method"),
   gasFeeCap : Choices("gasFeeCap"),
   gasPremium : Choices("gasPremium"),
   gasLimit : Choices("gasLimit"),
   params : Choices("params")]

\* the violation of one field, if any: <<>> when the field is in order
FieldError(obj, check) ==
  LET f == check[1]
      type == check[2]
  IN IF obj[f].kind # type
     THEN <<[field |-> f, type |-> type, kind |-> "required"]>>
     ELSE IF f \in AddressFields /\ obj[f].val \notin ValidAddressStrings
     THEN <<[field |-> f, type |-> type, kind |-> "address"]>>
     ELSE <<>>

\* the text of InvalidLotusMessage for a missing or mistyped field
RequiredText(field, type) ==
  field \o " is a required field and has to be a " \o type

\* arbitrary-precision numbers are parsed from their decimal strings
BigNumber(str) == <<"BigNumber", str>>

BigNumberFields == {"value", "gasFeeCap", "gasPremium"}

\* the first violation from check i on, <<>> when there is none
RECURSIVE FirstErrorFrom(_, _, _)
FirstErrorFrom(obj, checks, i) ==
  IF i > Len(checks) THEN <<>>
  ELSE IF FieldError(obj, checks[i]) # <<>> THEN FieldError(obj, checks[i])
  ELSE FirstErrorFrom(obj, checks, i + 1)

\* the checks with the recipient looked at before the version
ToFirstChecks ==
  <<FieldChecks[2], FieldChecks[1]>> \o SubSeq(FieldChecks, 3, Len(FieldChecks))

castWith(obj, checks) ==
  LET err == FirstErrorFrom(obj, checks, 1)
  IN IF err # <<>>
     THEN [tag |-> "Left", error |-> err[1]]
     ELSE [tag |-> "Right",
           message |-> [f \in DOMAIN obj |->
                          IF f \in BigNumberFields THEN BigNumber(obj[f].val)
                          ELSE obj[f].val]]

castToLotusMessageToFirst(obj) == castWith(obj, ToFirstChecks)

\* castToLotusMessage: Either<InvalidLotusMessage, LotusMessage>
castToLotusMessage(obj) == castWith(obj, FieldChecks)

\* signingBytesLotusMessage of lib/filecoin/message, on a LotusMessage
lotusSigningBytes(m) ==
  <<"cid", <<"cbor", m.version, m.to, m.from, m.nonce, m.value, m.gasLimit,
             m.gasFeeCap, m.gasPremium, m.method, m.params>> >>

\* newBLSAddress(publicKey).toString()
newBLSAddress(publicKey) == "t3" \o ToString(publicKey[2])

\* signature.toString()
SigToString(signature) == <<"str", signature>>

\* cosign of part_000: the signer field is the literal 'abc'
cosign(lotusMessage, privateKey) ==
  LET signingBytes == lotusSigningBytes(lotusMessage)
      signature == sign(signingBytes, privateKey)
  IN [data |-> SigToString(signature), type |-> blsSignatureType,
      signer |-> "abc"] @@ lotusMessage

PrivateKeys == UserPrivKeys \cup ServerKeys

\* ---- the pure functions applied to their inputs ----
PureInit ==
  /\ keypairs = EmptyBag
  /\ transactions = <<>>
  /\ chain = <<>>
  /\ reqs = <<>>
  /\ regs = NoReg
  /\ pure \in {[op |-> "castToLotusMessage", obj |-> obj] : obj \in RawObjects}

CastToLotusMessage ==
  /\ pure.op = "castToLotusMessage"
  /\ pure' = [op |-> "cast", obj |-> pure.obj,
              result |-> castToLotusMessage(pure.obj)]
  /\ UNCHANGED <<keypairs, transactions, chain, reqs, regs>>

Cosign(privateKey) ==
  /\ pure.op = "cast"
  /\ pure.result.tag = "Right"
  /\ pure' = [op |-> "cosigned", lotusMessage |-> pure.result.message,
              privateKey |-> privateKey,
              result |-> cosign(pure.result.message, privateKey)]
  /\ UNCHANGED <<keypairs, transactions, chain, reqs, regs>>

PureNext ==
  \/ CastToLotusMessage
  \/ \E privateKey \in PrivateKeys : Cosign(privateKey)

PureSpec == PureInit /\ [][PureNext]_vars

\* the position of a field in the order of the checks
CheckIndex(f) == CHOOSE i \in DOMAIN FieldChecks : FieldChecks[i][1] = f

FieldInOrder(obj, i) ==
  /\ obj[FieldChecks[i][1]].kind = FieldChecks[i][2]
  /\ FieldChecks[i][1] \in AddressFields =>
       obj[FieldChecks[i][1]].val \in ValidAddressStrings

\* C12: construction reports the first violation in the fixed order of the
\* fields and nothing else: an object with every field present and
\* type-correct gives a valid Message, and an object without version fails
\* with 'version is a required field and has to be a number', also when
\* to is invalid as well.
C12_FirstViolationReported ==
  pure.op = "cast" =>
    LET obj == pure.obj
        res == pure.result
    IN /\ (\A i \in DOMAIN FieldChecks : FieldInOrder(obj, i)) <=>
            res.tag = "Right"
       /\ res.tag = "Left" =>
            /\ ~FieldInOrder(obj, CheckIndex(res.error.field))
            /\ \A i \in 1..(CheckIndex(res.error.field) - 1) :
                 FieldInOrder(obj, i)
       /\ obj.version.kind = "undefined" =>
            /\ res.tag = "Left"
            /\ res.error.kind = "required"
            /\ RequiredText(res.error.field, res.error.type) =
                 "version is a required field and has to be a number"
       /\ obj = baseLotusMessagObject => res.tag = "Right"

\* version is left out and to is an invalid address
C12_Witness ==
  /\ pure.op = "cast"
  /\ pure.obj.version.kind = "undefined"
  /\ pure.obj.to.val \notin ValidAddressStrings
  /\ pure.obj.to.kind = "string"
  /\ pure.result.tag = "Left"

\* C13: cosign returns the message fields unchanged, the BLS type, the
\* signature of privateKey over the message's signing bytes, and as signer
\* the address of the individual signer, not the message's from.
C13_CosignResult ==
  pure.op = "cosigned" =>
    LET m == pure.lotusMessage
        res == pure.result
    IN /\ \A f \in DOMAIN m : res[f] = m[f]
       /\ res.type = blsSignatureType
       /\ res.data = SigToString(sign(lotusSigningBytes(m), pure.privateKey))
       /\ res.signer = newBLSAddress(privToPub(pure.privateKey))
       /\ res.signer # m.from

C14_KeySharesReadOnly ==
  [][\A row \in BagToSet(keypairs) :
       /\ CopiesIn(row, keypairs') = CopiesIn(row, keypairs)
       /\ \A other \in BagToSet(keypairs') :
            other.userpubkey = row.userpubkey => other = row]_vars

\* a registered key was registered again while a request of its owner went
\* through cosigning and watching
C14_Witness ==
  /\ regs.code = 409
  /\ \E row \in BagToSet(keypairs) : row.userpubkey = regs.publicKey
  /\ \E r \in DOMAIN reqs : reqs[r].watch = "done"

\* C15: the message submitted for a request has the request's Message
\* fields, nonce included, and its signature type; only Signature.Data is
\* replaced, by the aggregate of the server's and the caller's signatures;
\* From is the stored address of the key record that was found.
C15_OnlySignatureDataReplaced ==
  \A r \in DOMAIN reqs :
    reqs[r].aggMsg # <<>> =>
      LET submitted == reqs[r].aggMsg[1]
          message == reqs[r].message
      IN /\ submitted.Message = message.Message
         /\ submitted.Message.Nonce = message.Message.Nonce
         /\ submitted.Signature.Type = message.Signature.Type
         /\ submitted.Signature.Data =
              message.Signature.Data (+)
                sign(signingBytesLotusMessage(message.Message),
                     reqs[r].keys[1].serverPrivKey)
         /\ \E row \in BagToSet(keypairs) :
              /\ row.address = submitted.Message.From
              /\ row.privkey = reqs[r].keys[1].serverPrivKey
              /\ row.userpubkey = reqs[r].keys[1].userPubKey
         /\ reqs[r].cid # 0 => chain[reqs[r].cid] = submitted

C15_Witness ==
  \E r \in DOMAIN reqs :
    /\ reqs[r].cid # 0
    /\ chain[reqs[r].cid] = reqs[r].aggMsg[1]
    /\ chain[reqs[r].cid].Signature.Data # reqs[r].message.Signature.Data

\* the order of the statuses
Rank(status) ==
  CASE status = Sent -> 0
    [] status = Partial -> 1
    [] status = Verified -> 2

\* the node has reported the message included to a watcher
ReportedIncluded(messageId, rs) ==
  \E r \in DOMAIN rs : rs[r].cid = messageId /\ rs[r].height # NoHeight

\* C16: no step moves the recorded status of a transaction backward, and no
\* step marks a transaction Partial or Verified before its own message has
\* been reported included.
C16_StatusMovesForward ==
  [][\A i \in DOMAIN transactions :
       /\ Rank(transactions'[i].completed) >= Rank(transactions[i].completed)
       /\ transactions'[i].completed # Sent =>
            ReportedIncluded(transactions[i].messageid, reqs')]_vars

\* a request was refused by the node after its message was aggregated
ThrownAtSend(q) == q.pc = "thrown" /\ q.aggMsg # <<>>

\* C17: every transaction record carries a content identifier the node
\* returned to the request that added it; a request whose submission
\* returned none ends with an error, no record, no watcher and no response.
C17_RecordOnlyForAccepted ==
  /\ \A i \in DOMAIN transactions :
       /\ transactions[i].messageid \in DOMAIN chain
       /\ \E r \in DOMAIN reqs :
            /\ reqs[r].cid = transactions[i].messageid
            /\ reqs[r].added > 0
            /\ chain[reqs[r].cid] = reqs[r].aggMsg[1]
  /\ \A r \in DOMAIN reqs :
       reqs[r].aggMsg # <<>> /\ reqs[r].cid = 0 /\ reqs[r].pc # "send" =>
         /\ reqs[r].pc = "thrown"
         /\ reqs[r].added = 0
         /\ reqs[r].watch = "none"
         /\ reqs[r].res = NoRes

\* one submission was refused while another one was accepted and recorded
C17_Witness ==
  /\ \E r \in DOMAIN reqs : ThrownAtSend(reqs[r])
  /\ transactions # <<>>

\* the number of key records stored for a user public key
RecordsOf(userPubKey, rows) ==
  LET matching == {row \in BagToSet(rows) : row.userpubkey = userPubKey}
  IN IF matching = {} THEN 0
     ELSE CopiesIn(CHOOSE row \in matching : TRUE, rows) +
          Cardinality(matching) - 1

\* C18: a well-formed registration of a user public key that has a record
\* is answered 409 and leaves the key records as they are, and no step
\* leaves more than one record for a user public key.
C18_ReRegistrationRefused ==
  [][/\ \A p \in UserPubKeys : RecordsOf(p, keypairs') <= 1
     /\ (/\ regs' # regs
         /\ regs'.code # 400
         /\ RecordsOf(regs'.publicKey, keypairs) > 0) =>
          /\ regs'.code = 409
          /\ keypairs' = keypairs]_vars

\* the answer to the second registration of a key, after another key was
\* registered
C18_Witness ==
  /\ regs.code = 409
  /\ RecordsOf(regs.publicKey, keypairs) = 1
  /\ \E p \in UserPubKeys : p # regs.publicKey /\ RecordsOf(p, keypairs) = 1

\* C19: for every user public key with a record, getAggAddress gives the
\* address stored at registration; it gives null exactly for the keys
\* without a record.
C19_AggAddressStable ==
  \A p \in UserPubKeys :
    /\ getAggAddress(p) = <<>> <=>
         ~\E row \in BagToSet(keypairs) : row.userpubkey = p
    /\ \A row \in BagToSet(keypairs) :
         row.userpubkey = p => getAggAddress(p) = <<row.address>>

\* one key has a record, another has none
C19_Witness ==
  \E p, q \in UserPubKeys :
    /\ getAggAddress(p) # <<>>
    /\ getAggAddress(q) = <<>>
====
